---- MODULE Spec2Model ----
(***************************************************************************)
(* Model of main.py, the command-line shopping assistant: the start-up     *)
(* credential check, the catalog fetch, the interactive loop and the       *)
(* query pipeline parse_user_query -> filter_products ->                   *)
(* build_prompt_for_model -> summarizer call.                              *)
(*                                                                         *)
(* A Python str is a sequence of one-character strings.  A Python value is *)
(* a record tagged with its type in field t.  A dict is a function whose   *)
(* DOMAIN is the set of keys that are present.                             *)
(***************************************************************************)
EXTENDS Integers, Sequences, FiniteSets, TLC

VARIABLES pc, environ, dotenv, http, products, user_q, max_price, keyword,
          filtered, prompt, result, calls, events

vars == <<pc, environ, dotenv, http, products, user_q, max_price, keyword,
          filtered, prompt, result, calls, events>>

----------------------------------------------------------------------------
(* Python values *)

PyNone == [t |-> "NoneType"]
PyStr(s) == [t |-> "str", s |-> s]
PyInt(n) == [t |-> "int", n |-> n]
\* a float whose value is the decimal fraction n / d, d a power of ten
PyFloat(n, d) == [t |-> "float", n |-> n, d |-> d]
PyDict(f) == [t |-> "dict", f |-> f]

\* dict.get(key, default)
Get(p, key, default) == IF key \in DOMAIN p THEN p[key] ELSE default

Min(a, b) == IF a <= b THEN a ELSE b

----------------------------------------------------------------------------
(* str methods *)

UPPERCASE == <<"A", "B", "C", "D", "E", "F", "G", "H", "I", "J", "K", "L", "M", "N", "O", "P", "Q", "R", "S", "T", "U", "V", "W", "X", "Y", "Z">>
LOWERCASE == <<"a", "b", "c", "d", "e", "f", "g", "h", "i", "j", "k", "l", "m", "n", "o", "p", "q", "r", "s", "t", "u", "v", "w", "x", "y", "z">>
DIGITS == <<"0", "1", "2", "3", "4", "5", "6", "7", "8", "9">>

Range(s) == {s[i] : i \in DOMAIN s}

UPPER_CHARS == Range(UPPERCASE)
DIGIT_CHARS == Range(DIGITS)
WORD_CHARS == Range(LOWERCASE) \cup Range(UPPERCASE) \cup Range(DIGITS) \cup {"_"}

LowerChar(c) ==
    IF c \in UPPER_CHARS
    THEN LOWERCASE[CHOOSE i \in DOMAIN UPPERCASE : UPPERCASE[i] = c]
    ELSE c

\* str.lower()
Lower(s) == [i \in DOMAIN s |-> LowerChar(s[i])]

\* \s of the re module
IsSpace(c) == c \in {" ", "\t", "\n"}
\* [0-9]
IsDigit(c) == c \in DIGIT_CHARS
\* \w of the re module
IsWord(c) == c \in WORD_CHARS

RECURSIVE LStrip(_)
LStrip(s) == IF s # <<>> /\ IsSpace(Head(s)) THEN LStrip(Tail(s)) ELSE s

RECURSIVE RStrip(_)
RStrip(s) ==
    IF s # <<>> /\ IsSpace(s[Len(s)]) THEN RStrip(SubSeq(s, 1, Len(s) - 1)) ELSE s

\* str.strip()
Strip(s) == RStrip(LStrip(s))

\* s[i:] starts with w (positions are 1-based)
StartsWithAt(s, i, w) ==
    /\ i + Len(w) - 1 <= Len(s)
    /\ \A k \in 1..Len(w) : s[i + k - 1] = w[k]

\* the `in` operator on two strs
Contains(w, s) == \E i \in 1..(Len(s) - Len(w) + 1) : StartsWithAt(s, i, w)

RECURSIVE Join(_, _)
\* sep.join(parts)
Join(sep, parts) ==
    IF parts = <<>> THEN <<>>
    ELSE IF Len(parts) = 1 THEN parts[1]
    ELSE parts[1] \o sep \o Join(sep, Tail(parts))

DigitValue(c) == (CHOOSE i \in DOMAIN DIGITS : DIGITS[i] = c) - 1

RECURSIVE DigitsToInt(_)
DigitsToInt(s) ==
    IF s = <<>> THEN 0
    ELSE 10 * DigitsToInt(SubSeq(s, 1, Len(s) - 1)) + DigitValue(s[Len(s)])

RECURSIVE Pow10(_)
Pow10(k) == IF k = 0 THEN 1 ELSE 10 * Pow10(k - 1)

RECURSIVE IntToStr(_)
\* str(n) of a non-negative int
IntToStr(n) ==
    IF n < 10 THEN <<DIGITS[n + 1]>>
    ELSE IntToStr(n \div 10) \o <<DIGITS[(n % 10) + 1]>>

\* float(text) of a text matching [0-9]+(\.[0-9]+)?
FloatOfText(s) ==
    IF \E i \in DOMAIN s : s[i] = "."
    THEN LET dot == CHOOSE i \in DOMAIN s : s[i] = "."
             whole == SubSeq(s, 1, dot - 1)
             frac == SubSeq(s, dot + 1, Len(s))
         IN PyFloat(DigitsToInt(whole) * Pow10(Len(frac)) + DigitsToInt(frac),
                    Pow10(Len(frac)))
    ELSE PyFloat(DigitsToInt(s), 1)

\* float(v) of a price: an int, a float or a numeric str
ToFloat(v) ==
    CASE v.t = "int" -> PyFloat(v.n, 1)
      [] v.t = "float" -> v
      [] v.t = "str" -> FloatOfText(v.s)

\* a <= b on floats
FloatLE(a, b) == a.n * b.d <= b.n * a.d

RECURSIVE StripZeros(_)
StripZeros(s) ==
    IF Len(s) > 1 /\ s[Len(s)] = "0" THEN StripZeros(SubSeq(s, 1, Len(s) - 1)) ELSE s

RECURSIVE PadZeros(_, _)
PadZeros(s, width) == IF Len(s) >= width THEN s ELSE PadZeros(<<"0">> \o s, width)

RECURSIVE Log10(_)
Log10(d) == IF d = 1 THEN 0 ELSE 1 + Log10(d \div 10)

\* str(x) of a float: the shortest decimal text, with at least one fraction digit
FloatToStr(x) ==
    IntToStr(x.n \div x.d) \o <<".">> \o
    StripZeros(PadZeros(IntToStr(x.n % x.d), Log10(x.d)))

\* str(v), as an f-string formats a value
Format(v) ==
    CASE v.t = "NoneType" -> <<"N", "o", "n", "e">>
      [] v.t = "str" -> v.s
      [] v.t = "int" -> IntToStr(v.n)
      [] v.t = "float" -> FloatToStr(v)

----------------------------------------------------------------------------
(* The regular expressions of parse_user_query.  A match is a pair of       *)
(* positions <<first, last>>, or NoMatch.                                   *)

NoMatch == <<0, 0>>

\* the end of the longest run of digits (of whitespace) that starts at i
\* (i - 1 when the run is empty)
RECURSIVE DigitRunEnd(_, _)
DigitRunEnd(s, i) == IF i <= Len(s) /\ IsDigit(s[i]) THEN DigitRunEnd(s, i + 1) ELSE i - 1

RECURSIVE SpaceRunEnd(_, _)
SpaceRunEnd(s, i) == IF i <= Len(s) /\ IsSpace(s[i]) THEN SpaceRunEnd(s, i + 1) ELSE i - 1

\* [0-9]+(?:\.[0-9]+)? matched at i: the last position of the match, 0 if none
NumberEnd(s, i) ==
    LET e == DigitRunEnd(s, i)
    IN IF e < i THEN 0
       ELSE IF e + 2 <= Len(s) /\ s[e + 1] = "." /\ IsDigit(s[e + 2])
            THEN DigitRunEnd(s, e + 2)
            ELSE e

\* the alternatives of the price pattern, in the order the pattern lists them
PRICE_WORDS == << <<"u", "n", "d", "e", "r">>, <<"b", "e", "l", "o", "w">>, <<"l", "e", "s", "s", " ", "t", "h", "a", "n">>, <<"<">>, <<"<", "=">> >>

\* \s*\$?\s*([0-9]+(?:\.[0-9]+)?) matched at j: the span of group 1
PriceTail(s, j) ==
    LET a == SpaceRunEnd(s, j) + 1
        b == IF a <= Len(s) /\ s[a] = "$" THEN a + 1 ELSE a
        c == SpaceRunEnd(s, b) + 1
        e == NumberEnd(s, c)
    IN IF e = 0 THEN NoMatch ELSE <<c, e>>

\* (?:under|below|less than|<|<=)\s*\$?\s*([0-9]+(?:\.[0-9]+)?) matched at i
PriceAt(s, i) ==
    LET ok == {k \in DOMAIN PRICE_WORDS :
                  /\ StartsWithAt(s, i, PRICE_WORDS[k])
                  /\ PriceTail(s, i + Len(PRICE_WORDS[k])) # NoMatch}
    IN IF ok = {} THEN NoMatch
       ELSE LET k == CHOOSE k \in ok : \A m \in ok : k <= m
            IN PriceTail(s, i + Len(PRICE_WORDS[k]))

\* \$([0-9]+(?:\.[0-9]+)?) matched at i: the span of group 1
DollarAt(s, i) ==
    IF i <= Len(s) /\ s[i] = "$" /\ NumberEnd(s, i + 1) # 0
    THEN <<i + 1, NumberEnd(s, i + 1)>>
    ELSE NoMatch

\* the least element of a non-empty set of positions
Leftmost(hits) == CHOOSE i \in hits : \A m \in hits : i <= m

\* re.search with the price pattern: the match at the leftmost position that has one
SearchPrice(s) ==
    LET hits == {i \in 1..Len(s) : PriceAt(s, i) # NoMatch}
    IN IF hits = {} THEN NoMatch ELSE PriceAt(s, Leftmost(hits))

\* re.search with the $ pattern
SearchDollar(s) ==
    LET hits == {i \in 1..Len(s) : DollarAt(s, i) # NoMatch}
    IN IF hits = {} THEN NoMatch ELSE DollarAt(s, Leftmost(hits))

\* \b at position i (between s[i-1] and s[i])
Boundary(s, i) ==
    LET before == i > 1 /\ i - 1 <= Len(s) /\ IsWord(s[i - 1])
        after == i >= 1 /\ i <= Len(s) /\ IsWord(s[i])
    IN before # after

\* the alternatives of the stop-word pattern, in the order the pattern lists them
STOP_WORDS == << <<"u", "n", "d", "e", "r">>, <<"b", "e", "l", "o", "w">>, <<"l", "e", "s", "s", " ", "t", "h", "a", "n">>, <<"f", "i", "n", "d">>, <<"s", "h", "o", "w">>, <<"m", "e">>,
                 <<"p", "r", "o", "d", "u", "c", "t", "s">>, <<"p", "r", "o", "d", "u", "c", "t">>, <<"f", "o", "r">>, <<"a">>, <<"a", "n">>, <<"t", "h", "e">>, <<"i", "n">>,
                 <<"w", "i", "t", "h">>, <<"a", "n", "d">>, <<"t", "o">>, <<"i">>, <<"w", "a", "n", "t">> >>

\* \b(under|...|want)\b matched at i: the last position of the match, 0 if none
StopWordEnd(s, i) ==
    LET ok == {k \in DOMAIN STOP_WORDS :
                  /\ Boundary(s, i)
                  /\ StartsWithAt(s, i, STOP_WORDS[k])
                  /\ Boundary(s, i + Len(STOP_WORDS[k]))}
    IN IF ok = {} THEN 0
       ELSE i + Len(STOP_WORDS[CHOOSE k \in ok : \A m \in ok : k <= m]) - 1

\* \$[0-9]+(?:\.[0-9]+)? matched at i: the last position of the match, 0 if none
DollarNumberEnd(s, i) ==
    IF i <= Len(s) /\ s[i] = "$" THEN NumberEnd(s, i + 1) ELSE 0

\* [^\w\s\-] matched at i
PunctEnd(s, i) ==
    IF i <= Len(s) /\ ~IsWord(s[i]) /\ ~IsSpace(s[i]) /\ s[i] # "-" THEN i ELSE 0

\* \s+ matched at i
SpacesEnd(s, i) == LET e == SpaceRunEnd(s, i) IN IF e < i THEN 0 ELSE e

\* the named pattern matched at i: the last position of the match, 0 if none
MatchEnd(pattern, s, i) ==
    CASE pattern = "dollar_number" -> DollarNumberEnd(s, i)
      [] pattern = "stop_word" -> StopWordEnd(s, i)
      [] pattern = "punctuation" -> PunctEnd(s, i)
      [] pattern = "spaces" -> SpacesEnd(s, i)

\* re.sub(pattern, " ", s): every non-overlapping match, leftmost first, becomes
\* one space
RECURSIVE SubFrom(_, _, _)
SubFrom(pattern, s, i) ==
    IF i > Len(s) THEN <<>>
    ELSE IF MatchEnd(pattern, s, i) # 0
         THEN <<" ">> \o SubFrom(pattern, s, MatchEnd(pattern, s, i) + 1)
         ELSE <<s[i]>> \o SubFrom(pattern, s, i + 1)

Sub(pattern, s) == SubFrom(pattern, s, 1)

\* re.search(r"[0-9]", s)
AnyDigit(s) == \E i \in DOMAIN s : IsDigit(s[i])

\* re.fullmatch(r"[0-9\s]+", s)
AllDigitsOrSpaces(s) == s # <<>> /\ \A i \in DOMAIN s : IsDigit(s[i]) \/ IsSpace(s[i])

----------------------------------------------------------------------------
(* parse_user_query *)

\* the text left after the four substitutions and the strip
Cleaned(q) ==
    Strip(Sub("spaces", Sub("punctuation", Sub("stop_word", Sub("dollar_number", q)))))

parse_user_query(query) ==
    LET q == Strip(Lower(query))
        under == SearchPrice(q)
        price_match == IF under # NoMatch THEN under ELSE SearchDollar(q)
        cleaned == Cleaned(q)
    IN [max_price |-> IF price_match # NoMatch
                      THEN FloatOfText(SubSeq(q, price_match[1], price_match[2]))
                      ELSE PyNone,
        keyword |-> IF cleaned = <<>> \/ AllDigitsOrSpaces(cleaned)
                    THEN PyNone
                    ELSE PyStr(cleaned)]

----------------------------------------------------------------------------
(* filter_products *)

\* float(p.get("price") or 0) <= max_price
PriceMatchesNoneAsZero(p, max_price_) ==
    FloatLE(IF Get(p, "price", PyNone).t = "NoneType"
            THEN PyFloat(0, 1)
            ELSE ToFloat(Get(p, "price", PyNone)),
            max_price_)

\* the condition of the price comprehension
PriceMatches(p, max_price_) ==
    /\ Get(p, "price", PyNone).t # "NoneType"
    /\ FloatLE(ToFloat(Get(p, "price", PyInt(0))), max_price_)

\* the text the keyword is looked up in
Haystack(p) ==
    Lower(Get(p, "name", PyStr(<<>>)).s) \o <<" ">> \o
    Lower(Get(p, "description", PyStr(<<>>)).s)

\* the condition of the keyword comprehension
KeywordMatches(p, kw) == Contains(kw, Haystack(p))

PriceFilter(results, max_price_) ==
    IF max_price_.t # "NoneType"
    THEN LET Keep(p) == PriceMatches(p, max_price_) IN SelectSeq(results, Keep)
    ELSE results

\* `if keyword:` is false for None and for the empty str
Truthy(v) == v.t = "str" /\ v.s # <<>>

KeywordFilter(results, keyword_) ==
    IF Truthy(keyword_)
    THEN LET kw == Lower(keyword_.s)
             Keep(p) == KeywordMatches(p, kw)
         IN SelectSeq(results, Keep)
    ELSE results

\* the keyword branch left out
filter_products_price_only(products_, max_price_, keyword_) ==
    PriceFilter(products_, max_price_)

\* the keyword matches added to the price matches
filter_products_concat(products_, max_price_, keyword_) ==
    PriceFilter(products_, max_price_) \o KeywordFilter(products_, keyword_)

filter_products(products_, max_price_, keyword_) ==
    KeywordFilter(PriceFilter(products_, max_price_), keyword_)

----------------------------------------------------------------------------
(* build_prompt_for_model *)

PROMPT_ITEMS == 10
JSON_KEYS == {"name", "price", "_id", "category", "description"}

\* p.get("category", {}).get("name") if isinstance(p.get("category"), dict)
\* else p.get("category")
CategoryOf(p) ==
    IF Get(p, "category", PyNone).t = "dict"
    THEN Get(Get(p, "category", PyDict(<<>>)).f, "name", PyNone)
    ELSE Get(p, "category", PyNone)

short(p) ==
    [k \in JSON_KEYS |->
        CASE k = "name" -> Get(p, "name", PyNone)
          [] k = "price" -> Get(p, "price", PyNone)
          [] k = "_id" -> Get(p, "_id", PyNone)
          [] k = "category" -> CategoryOf(p)
          [] k = "description" -> Get(p, "description", PyStr(<<>>))]

CONTEXT ==
    <<"Y", "o", "u", " ", "a", "r", "e", " ", "a", " ", "s", "h", "o", "p", "p", "i", "n", "g", " ", "a", "s", "s", "i", "s", "t", "a", "n", "t", ".", " ", "Y", "o", "u", " ", "M", "U", "S", "T", " ", "a", "n", "s", "w", "e", "r", " ", "o", "n", "l", "y", " ", "u", "s", "i", "n", "g", " ", "t", "h", "e", " ", "p", "r", "o", "d", "u", "c", "t", " ", "l", "i", "s", "t", " ", "p", "r", "o", "v", "i", "d", "e", "d", ".", " ">> \o
    <<"D", "o", " ", "N", "O", "T", " ", "i", "n", "v", "e", "n", "t", " ", "p", "r", "o", "d", "u", "c", "t", "s", " ", "o", "r", " ", "p", "r", "i", "c", "e", "s", ".", " ", "I", "f", " ", "n", "o", "t", "h", "i", "n", "g", " ", "m", "a", "t", "c", "h", "e", "s", ",", " ", "s", "a", "y", ":", " ", "'", "N", "o", " ", "m", "a", "t", "c", "h", "i", "n", "g", " ", "p", "r", "o", "d", "u", "c", "t", "s", " ", "f", "o", "u", "n", "d", ".", "'", "\n", "\n">>

PROMPT_CLOSING ==
    <<"\n", "\n", "A", "n", "s", "w", "e", "r", " ", "c", "o", "n", "c", "i", "s", "e", "l", "y", " ", "a", "n", "d", " ", "r", "e", "f", "e", "r", " ", "t", "o", " ", "p", "r", "o", "d", "u", "c", "t", " ", "n", "a", "m", "e", "s", " ", "a", "n", "d", " ", "e", "x", "a", "c", "t", " ", "p", "r", "i", "c", "e", "s", " ", "f", "r", "o", "m", " ", "t", "h", "e", " ", "l", "i", "s", "t", " ", "a", "b", "o", "v", "e", ".">>

\* the fallback without its slice
build_prompt_for_model_no_cap(query, products_, filtered_) ==
    LET items == IF filtered_ # <<>> THEN filtered_ ELSE products_
    IN [head |-> CONTEXT \o <<"U", "s", "e", "r", " ", "q", "u", "e", "r", "y", ":", "\n">> \o query \o <<"\n", "\n", "P", "r", "o", "d", "u", "c", "t", "s", " ", "(", "J", "S", "O", "N", " ", "a", "r", "r", "a", "y", ")", ":", "\n">>,
        items |-> [i \in DOMAIN items |-> short(items[i])],
        tail |-> PROMPT_CLOSING]

\* the prompt is the concatenation head + json.dumps(items, indent=2) + tail; the
\* serialised array is kept as the list it serialises
build_prompt_for_model(query, products_, filtered_) ==
    LET items == IF filtered_ # <<>>
                 THEN filtered_
                 ELSE SubSeq(products_, 1, Min(PROMPT_ITEMS, Len(products_)))
        items_short == [i \in DOMAIN items |-> short(items[i])]
    IN [head |-> CONTEXT \o <<"U", "s", "e", "r", " ", "q", "u", "e", "r", "y", ":", "\n">> \o query \o <<"\n", "\n", "P", "r", "o", "d", "u", "c", "t", "s", " ", "(", "J", "S", "O", "N", " ", "a", "r", "r", "a", "y", ")", ":", "\n">>,
        items |-> items_short,
        tail |-> PROMPT_CLOSING]

----------------------------------------------------------------------------
(* shopping_agent_query *)

NO_MATCH == <<"N", "o", " ", "m", "a", "t", "c", "h", "i", "n", "g", " ", "p", "r", "o", "d", "u", "c", "t", "s", " ", "f", "o", "u", "n", "d", " ", "(", "b", "a", "s", "e", "d", " ", "o", "n", " ", "e", "x", "a", "c", "t", " ", "f", "i", "l", "t", "e", "r", ")", ".">>
MATCHING_HEADER == <<"M", "A", "T", "C", "H", "I", "N", "G", " ", "P", "R", "O", "D", "U", "C", "T", "S", ":", "\n">>
SUMMARY_HEADER == <<"\n", "\n", "A", "I", " ", "S", "u", "m", "m", "a", "r", "y", ":", "\n">>
FAILURE_MARKER == <<"[", "M", "o", "d", "e", "l", " ", "c", "a", "l", "l", " ", "f", "a", "i", "l", "e", "d", "]", " ">>
\* the character U+2014, which the module's character set cannot spell
EM_DASH == "U+2014"

deterministic_line(p) ==
    <<"-", " ">> \o Format(Get(p, "name", PyNone)) \o <<" ", "(", "I", "D", ":", " ">> \o Format(Get(p, "_id", PyNone))
    \o <<")", ":", " ", "$">> \o Format(Get(p, "price", PyNone)) \o <<" ", EM_DASH, " ">>
    \o Format(CategoryOf(p))

deterministic_result(filtered_) ==
    IF filtered_ # <<>>
    THEN MATCHING_HEADER \o
         Join(<<"\n">>, [i \in DOMAIN filtered_ |-> deterministic_line(filtered_[i])])
    ELSE NO_MATCH

MODEL == <<"g", "p", "t", "-", "4", "o", "-", "m", "i", "n", "i">>
MAX_TOKENS == 400
SYSTEM_MESSAGE == <<"Y", "o", "u", " ", "a", "r", "e", " ", "a", " ", "h", "e", "l", "p", "f", "u", "l", " ", "a", "s", "s", "i", "s", "t", "a", "n", "t", " ", "t", "h", "a", "t", " ", "o", "n", "l", "y", " ", "u", "s", "e", "s", " ", "t", "h", "e", " ", "p", "r", "o", "v", "i", "d", "e", "d", " ", "p", "r", "o", "d", "u", "c", "t", " ", "l", "i", "s", "t", ".">>

\* what client.chat.completions.create can do: return a response whose first
\* choice has a text content, return one whose content is None, or raise
NONE_HAS_NO_STRIP == <<"'", "N", "o", "n", "e", "T", "y", "p", "e", "'", " ", "o", "b", "j", "e", "c", "t", " ", "h", "a", "s", " ", "n", "o", " ", "a", "t", "t", "r", "i", "b", "u", "t", "e", " ", "'", "s", "t", "r", "i", "p", "'">>

SummarizerOutcomes ==
    { [kind |-> "return", content |-> PyStr(<<" ", "R", "e", "d", " ", "C", "h", "a", "i", "r", ",", " ", "$", "1", "5", "0", ".", "\n">>)],
      [kind |-> "return", content |-> PyNone],
      [kind |-> "raise", error |-> <<"C", "o", "n", "n", "e", "c", "t", "i", "o", "n", " ", "e", "r", "r", "o", "r", ".">>] }

\* the try/except around the call: the text of model_answer
model_answer(outcome) ==
    IF outcome.kind = "return"
    THEN IF outcome.content.t = "str"
         THEN Strip(outcome.content.s)
         ELSE FAILURE_MARKER \o NONE_HAS_NO_STRIP
    ELSE FAILURE_MARKER \o outcome.error

\* an except branch that returns the failure text alone
shopping_agent_result_error_only(filtered_, outcome) ==
    IF outcome.kind = "raise"
    THEN model_answer(outcome)
    ELSE deterministic_result(filtered_) \o SUMMARY_HEADER \o model_answer(outcome)

\* the value shopping_agent_query returns
shopping_agent_result(filtered_, outcome) ==
    deterministic_result(filtered_) \o SUMMARY_HEADER \o model_answer(outcome)

----------------------------------------------------------------------------
(* The data the runs draw from *)

API_KEY == "OPENAI_API_KEY"

\* a dict with no key
EmptyDict == [k \in {} |-> PyNone]

RED_CHAIR ==
    ("name" :> PyStr(<<"R", "e", "d", " ", "C", "h", "a", "i", "r">>)) @@ ("price" :> PyInt(150)) @@
    ("_id" :> PyStr(<<"1">>)) @@ ("description" :> PyStr(<<>>))

BLUE_LAMP ==
    ("name" :> PyStr(<<"B", "l", "u", "e", " ", "L", "a", "m", "p">>)) @@ ("price" :> PyInt(400)) @@
    ("_id" :> PyStr(<<"2">>)) @@ ("description" :> PyStr(<<>>))

\* name and description that only together spell "red chair"; a price given as text
RED ==
    ("name" :> PyStr(<<"R", "e", "d">>)) @@ ("price" :> PyStr(<<"1", "5", "0">>)) @@
    ("_id" :> PyStr(<<"3">>)) @@ ("description" :> PyStr(<<"C", "h", "a", "i", "r">>)) @@
    ("category" :> PyStr(<<"S", "e", "a", "t", "i", "n", "g">>))

\* a null price, a category object
ARMCHAIR ==
    ("name" :> PyStr(<<"A", "R", "M", "C", "H", "A", "I", "R">>)) @@ ("price" :> PyNone) @@
    ("_id" :> PyStr(<<"4">>)) @@
    ("category" :> PyDict("name" :> PyStr(<<"S", "e", "a", "t", "i", "n", "g">>)))

\* a fractional price, no name, a category object without a name
STOOL ==
    ("price" :> PyFloat(15, 10)) @@ ("_id" :> PyStr(<<"5">>)) @@
    ("description" :> PyStr(<<"a", " ", "c", "h", "a", "i", "r">>)) @@ ("category" :> PyDict(EmptyDict))

\* no field but the id
BARE == ("_id" :> PyStr(<<"6">>))

CATALOG_1 == <<RED_CHAIR, BLUE_LAMP>>
CATALOG_2 == <<STOOL, RED, ARMCHAIR>>

\* what the catalog endpoint can answer
Responses ==
    { [status_code |-> 200, json |-> CATALOG_1],
      [status_code |-> 200, json |-> CATALOG_2],
      [status_code |-> 500, json |-> CATALOG_1] }

\* the lines the user can type
QUERY_CHAIRS == <<"c", "h", "a", "i", "r", "s", " ", "u", "n", "d", "e", "r", " ", "2", "0", "0">>
QUERY_FIND_CHAIRS == <<"F", "i", "n", "d", " ", "c", "h", "a", "i", "r", "s", " ", "u", "n", "d", "e", "r", " ", "2", "0", "0">>
QUERY_LAMP == <<" ", "f", "i", "n", "d", " ", "l", "a", "m", "p", " ">>

InputLines ==
    { <<>>, <<" ", " ">>, <<"e", "x", "i", "t">>, <<" ", "Q", "u", "i", "t">>, QUERY_CHAIRS, QUERY_FIND_CHAIRS, QUERY_LAMP }

\* os.environ and the .env file: the key absent, empty or set
KeySettings ==
    { EmptyDict, (API_KEY :> <<>>), (API_KEY :> <<"s", "k">>) }

MaxInputs == 2

----------------------------------------------------------------------------
(* The program: module level code and the __main__ block *)

SEPARATOR_WIDTH == 60
SEPARATOR == <<"\n">> \o [i \in 1..SEPARATOR_WIDTH |-> "="] \o <<"\n">>
GOODBYE == <<"G", "o", "o", "d", "b", "y", "e", "!">>
INPUT_PROMPT == <<"Y", "o", "u", "r", " ", "q", "u", "e", "r", "y", ":", " ">>
KEY_ERROR == <<"E", "R", "R", "O", "R", ":", " ", "O", "P", "E", "N", "A", "I", "_", "A", "P", "I", "_", "K", "E", "Y", " ", "n", "o", "t", " ", "f", "o", "u", "n", "d", ".", " ", "S", "e", "t", " ", "i", "t", " ", "i", "n", " ", "t", "h", "e", " ", "e", "n", "v", "i", "r", "o", "n", "m", "e", "n", "t", " ", "o", "r", " ", ".", "e", "n", "v", " ", "f", "i", "l", "e", ".">>
FETCH_TIMEOUT == 10
PRODUCTS_URL == <<"h", "t", "t", "p", "s", ":", "/", "/", "h", "a", "c", "k", "a", "t", "h", "o", "n", "-", "a", "p", "i", "s", ".", "v", "e", "r", "c", "e", "l", ".", "a", "p", "p", "/", "a", "p", "i", "/", "p", "r", "o", "d", "u", "c", "t", "s">>

Stdout(text) == [op |-> "print", text |-> text]

BANNER(n) ==
    << Stdout(<<"P", "r", "o", "d", "u", "c", "t", "s", " ", "f", "e", "t", "c", "h", "e", "d", ":", " ">> \o IntToStr(n) \o <<"\n">>),
       Stdout(<<"T", "y", "p", "e", " ", "q", "u", "e", "r", "i", "e", "s", " ", "l", "i", "k", "e", ":">>),
       Stdout(<<" ", " ", "-", " ", "S", "h", "o", "w", " ", "m", "e", " ", "p", "r", "o", "d", "u", "c", "t", "s", " ", "u", "n", "d", "e", "r", " ", "$", "3", "0", "0">>),
       Stdout(<<" ", " ", "-", " ", "F", "i", "n", "d", " ", "c", "h", "a", "i", "r", "s", " ", "u", "n", "d", "e", "r", " ", "2", "0", "0">>),
       Stdout(<<" ", " ", "-", " ", "F", "i", "n", "d", " ", "b", "l", "u", "e", " ", "l", "a", "m", "p">>),
       Stdout(<<"T", "y", "p", "e", " ", "'", "e", "x", "i", "t", "'", " ", "t", "o", " ", "q", "u", "i", "t", ".", "\n">>) >>

NoLocals ==
    /\ user_q = <<>>
    /\ max_price = PyNone
    /\ keyword = PyNone
    /\ filtered = <<>>
    /\ prompt = [head |-> <<>>, items |-> <<>>, tail |-> <<>>]
    /\ result = <<>>

Init ==
    /\ pc = "load_dotenv"
    /\ environ \in KeySettings
    /\ dotenv \in KeySettings
    /\ http \in Responses
    /\ products = <<>>
    /\ NoLocals
    /\ calls = <<>>
    /\ events = <<>>

\* load_dotenv(override=True): every key of the .env file replaces the environment's
LoadDotenv ==
    /\ pc = "load_dotenv"
    /\ environ' = [k \in DOMAIN environ \cup DOMAIN dotenv |->
                      IF k \in DOMAIN dotenv THEN dotenv[k] ELSE environ[k]]
    /\ pc' = "check_key"
    /\ UNCHANGED <<dotenv, http, products, user_q, max_price, keyword, filtered,
                   prompt, result, calls, events>>

\* os.getenv("OPENAI_API_KEY", "")
OPENAI_KEY == Get(environ, API_KEY, <<>>)

\* a test of the variable being set at all
KeyAbsent == API_KEY \notin DOMAIN environ

\* not OPENAI_KEY
KeyFalsy == OPENAI_KEY = <<>>

\* if not OPENAI_KEY: raise SystemExit(...); otherwise the client is built
CheckKey ==
    /\ pc = "check_key"
    /\ IF KeyFalsy
       THEN /\ pc' = "exit"
            /\ events' = Append(events, [op |-> "SystemExit", text |-> KEY_ERROR])
       ELSE /\ pc' = "main"
            /\ events' = events
    /\ UNCHANGED <<environ, dotenv, http, products, user_q, max_price, keyword,
                   filtered, prompt, result, calls>>

\* resp.json() if resp.status_code == 200 else []
fetch_products(resp) == IF resp.status_code = 200 THEN resp.json ELSE <<>>

\* lines 150-158: the fetch and the banner
Fetch ==
    /\ pc = "main"
    /\ products' = fetch_products(http)
    /\ events' = events \o
                 << Stdout(<<"F", "e", "t", "c", "h", "i", "n", "g", " ", "p", "r", "o", "d", "u", "c", "t", "s", ".", ".", ".">>),
                    [op |-> "GET", url |-> PRODUCTS_URL, timeout |-> FETCH_TIMEOUT] >>
                 \o BANNER(Len(fetch_products(http)))
    /\ pc' = "input"
    /\ UNCHANGED <<environ, dotenv, http, user_q, max_price, keyword, filtered,
                   prompt, result, calls>>

InputCount == Cardinality({i \in DOMAIN events : events[i].op = "input"})

\* the comparison without .lower()
IsExitCaseSensitive(q) == q \in { <<"e", "x", "i", "t">>, <<"q", "u", "i", "t">> }

\* user_q.lower() in {"exit", "quit"}
IsExit(q) == Lower(q) \in { <<"e", "x", "i", "t">>, <<"q", "u", "i", "t">> }

\* lines 161-166: one line is read and stripped; an empty one is skipped, exit or
\* quit ends the loop, anything else goes to shopping_agent_query
ReadInput ==
    /\ pc = "input"
    /\ InputCount < MaxInputs
    /\ \E line \in InputLines :
       \E stripped \in {Strip(line)} :
       \E read \in {[op |-> "input", prompt |-> INPUT_PROMPT, line |-> line]} :
          /\ user_q' = stripped
          /\ CASE stripped = <<>> ->
                    /\ pc' = "input"
                    /\ events' = Append(events, read)
               [] stripped # <<>> /\ IsExit(stripped) ->
                    /\ pc' = "done"
                    /\ events' = events \o <<read, Stdout(GOODBYE)>>
               [] OTHER ->
                    /\ pc' = "query"
                    /\ events' = Append(events, read)
    /\ UNCHANGED <<environ, dotenv, http, products, max_price, keyword, filtered,
                   prompt, result, calls>>

\* a filter that removes from the list it was given
catalog_in_place(catalog, found) == found

\* the catalog list after a call: no statement of the pipeline assigns to it or
\* changes it in place (the comprehensions and the slice build new lists)
catalog_after_query(catalog, found) == catalog

\* line 168: shopping_agent_query(user_q, products), with what the summarizer does
Query ==
    /\ pc = "query"
    /\ \E parsed \in {parse_user_query(user_q)} :
       \E found \in {filter_products(products, parsed.max_price, parsed.keyword)} :
       \E built \in {build_prompt_for_model(user_q, products, found)} :
       \E outcome \in SummarizerOutcomes :
       \E returned \in {shopping_agent_result(found, outcome)} :
          /\ max_price' = parsed.max_price
          /\ keyword' = parsed.keyword
          /\ filtered' = found
          /\ prompt' = built
          /\ result' = returned
          /\ calls' = Append(calls,
                             [query |-> user_q,
                              outcome |-> outcome,
                              deterministic_result |-> deterministic_result(found),
                              result |-> returned])
          /\ events' = Append(events,
                              [op |-> "chat", model |-> MODEL, max_tokens |-> MAX_TOKENS,
                               system |-> SYSTEM_MESSAGE, user |-> built])
          /\ products' = catalog_after_query(products, found)
    /\ pc' = "print"
    /\ UNCHANGED <<environ, dotenv, http, user_q>>

\* lines 169-171
PrintResult ==
    /\ pc = "print"
    /\ events' = events \o <<Stdout(SEPARATOR), Stdout(result), Stdout(SEPARATOR)>>
    /\ pc' = "input"
    /\ UNCHANGED <<environ, dotenv, http, products, user_q, max_price, keyword,
                   filtered, prompt, result, calls>>

Next == LoadDotenv \/ CheckKey \/ Fetch \/ ReadInput \/ Query \/ PrintResult

Spec == Init /\ [][Next]_vars

----------------------------------------------------------------------------
(* filter_products and build_prompt_for_model on their own: the arguments   *)
(* are drawn from bounded sets and the function is applied once.            *)

MaxCatalog == 3
MaxPromptCatalog == 11
MaxFiltered == 1

SeqsUpTo(S, n) == UNION {[1..k -> S] : k \in 0..n}

FilterPool == {RED_CHAIR, RED, ARMCHAIR, STOOL, BARE}
Thresholds == {PyNone, PyFloat(150, 1), PyFloat(15, 10)}
Keywords ==
    {PyNone, PyStr(<<>>), PyStr(<<"C", "h", "a", "i", "r">>), PyStr(<<"r", "e", "d", " ", "c", "h", "a", "i", "r">>)}

PromptPool == {RED, STOOL}

\* the part of the state a call of one function does not touch
Idle ==
    /\ environ = EmptyDict
    /\ dotenv = EmptyDict
    /\ http = [status_code |-> 200, json |-> <<>>]
    /\ result = <<>>
    /\ calls = <<>>
    /\ events = <<>>

FilterInit ==
    /\ pc = "filter_products"
    /\ products \in SeqsUpTo(FilterPool, MaxCatalog)
    /\ max_price \in Thresholds
    /\ keyword \in Keywords
    /\ filtered = <<>>
    /\ user_q = <<>>
    /\ prompt = [head |-> <<>>, items |-> <<>>, tail |-> <<>>]
    /\ Idle

FilterCall ==
    /\ pc = "filter_products"
    /\ filtered' = filter_products(products, max_price, keyword)
    /\ pc' = "filter_products_return"
    /\ UNCHANGED <<environ, dotenv, http, products, user_q, max_price, keyword,
                   prompt, result, calls, events>>

FilterSpec == FilterInit /\ [][FilterCall]_vars

PromptInit ==
    /\ pc = "build_prompt_for_model"
    /\ products \in SeqsUpTo(PromptPool, MaxPromptCatalog)
    /\ filtered \in SeqsUpTo(PromptPool, MaxFiltered)
    /\ user_q = Strip(QUERY_LAMP)
    /\ max_price = PyNone
    /\ keyword = PyNone
    /\ prompt = [head |-> <<>>, items |-> <<>>, tail |-> <<>>]
    /\ Idle

PromptCall ==
    /\ pc = "build_prompt_for_model"
    /\ prompt' = build_prompt_for_model(user_q, products, filtered)
    /\ pc' = "build_prompt_for_model_return"
    /\ UNCHANGED <<environ, dotenv, http, products, user_q, max_price, keyword,
                   filtered, result, calls, events>>

PromptSpec == PromptInit /\ [][PromptCall]_vars

----------------------------------------------------------------------------
(* Properties *)

RED_CHAIR_LINE == <<"-", " ", "R", "e", "d", " ", "C", "h", "a", "i", "r", " ", "(", "I", "D", ":", " ", "1", ")", ":", " ", "$", "1", "5", "0", " ">> \o <<EM_DASH>> \o <<" ", "N", "o", "n", "e">>
BLUE_LAMP_LINE == <<"-", " ", "B", "l", "u", "e", " ", "L", "a", "m", "p", " ", "(", "I", "D", ":", " ", "2", ")", ":", " ", "$", "4", "0", "0", " ">> \o <<EM_DASH>> \o <<" ", "N", "o", "n", "e">>

\* the calls of shopping_agent_query made with the given query
CallsOf(q) == {k \in DOMAIN calls : calls[k].query = q}

\* C1, as the specification states it: on the catalog [Red Chair 150, Blue Lamp
\* 400] the query "chairs under 200" yields a deterministic block that contains
\* the Red Chair line, no Blue Lamp line, and is not the no-match literal.
C1_RedChairListed ==
    products = CATALOG_1 =>
        \A k \in CallsOf(QUERY_CHAIRS) :
            /\ Contains(RED_CHAIR_LINE, calls[k].deterministic_result)
            /\ ~Contains(BLUE_LAMP_LINE, calls[k].deterministic_result)
            /\ calls[k].deterministic_result # NO_MATCH

\* C1, amended: on that catalog the query "chairs under 200" yields the no-match
\* literal as the deterministic block: no Red Chair line and no Blue Lamp line.
C1_NoMatch ==
    products = CATALOG_1 =>
        \A k \in CallsOf(QUERY_CHAIRS) : calls[k].deterministic_result = NO_MATCH

C1_Witness == products = CATALOG_1 /\ CallsOf(QUERY_CHAIRS) # {}

\* C2: parse_user_query("Find chairs under 200") returns the ceiling 200.0 and the
\* keyword "chairs", the number after 'under' not being left in the keyword.
C2_FindChairsParsed ==
    (pc = "print" /\ user_q = QUERY_FIND_CHAIRS) =>
        /\ max_price = PyFloat(200, 1)
        /\ keyword = PyStr(<<"c", "h", "a", "i", "r", "s">>)

FilterReturned == pc = "filter_products_return"

NameOf(p) == IF "name" \in DOMAIN p THEN Lower(p["name"].s) ELSE <<>>
DescriptionOf(p) == IF "description" \in DOMAIN p THEN Lower(p["description"].s) ELSE <<>>
KeywordOnly == FilterReturned /\ max_price = PyNone /\ keyword # PyNone /\ keyword.s # <<>>

\* C3, as the specification states it: every product filter_products(C, None, K)
\* returns for a non-empty K contains K, case-insensitively, in its name or in its
\* description.
C3_InNameOrDescription ==
    KeywordOnly =>
        \A i \in DOMAIN filtered :
            \/ Contains(Lower(keyword.s), NameOf(filtered[i]))
            \/ Contains(Lower(keyword.s), DescriptionOf(filtered[i]))

\* C3, amended: every product filter_products(C, None, K) returns for a non-empty
\* K contains K, case-insensitively, in the text made of its name, one space and
\* its description.
C3_InNameSpaceDescription ==
    KeywordOnly =>
        \A i \in DOMAIN filtered :
            Contains(Lower(keyword.s),
                     NameOf(filtered[i]) \o <<" ">> \o DescriptionOf(filtered[i]))

C3_Witness == KeywordOnly /\ filtered # <<>> /\ Len(filtered) < Len(products)

PriceMissing(p) == "price" \notin DOMAIN p \/ p["price"] = PyNone
PriceOnly == FilterReturned /\ max_price # PyNone /\ keyword = PyNone

\* C4: every product filter_products(C, T, None) returns for a non-null T has a
\* non-null price that is <= T, and no product of C without a price is returned.
C4_PriceWithinCeiling ==
    PriceOnly =>
        /\ \A i \in DOMAIN filtered :
              /\ ~PriceMissing(filtered[i])
              /\ LET price == ToFloat(filtered[i]["price"])
                 IN price.n * max_price.d <= max_price.n * price.d
        /\ \A j \in DOMAIN products :
              PriceMissing(products[j]) => products[j] \notin Range(filtered)

C4_Witness ==
    /\ PriceOnly
    /\ filtered # <<>>
    /\ \E j \in DOMAIN products : PriceMissing(products[j])
    /\ \E j \in DOMAIN products :
          ~PriceMissing(products[j]) /\ products[j] \notin Range(filtered)

RECURSIVE IsSubsequence(_, _)
IsSubsequence(s, t) ==
    IF s = <<>> THEN TRUE
    ELSE IF t = <<>> THEN FALSE
    ELSE IF Head(s) = Head(t) THEN IsSubsequence(Tail(s), Tail(t))
    ELSE IsSubsequence(s, Tail(t))

\* C5: for every threshold and keyword, null or not, what filter_products returns
\* is a subsequence of the catalog: its products, in their order, none repeated
\* more often than in the catalog.
C5_Subsequence == FilterReturned => IsSubsequence(filtered, products)

C5_Witness ==
    /\ FilterReturned
    /\ max_price # PyNone
    /\ keyword # PyNone
    /\ Len(filtered) = 2
    /\ Len(products) = 3
    /\ filtered[1] # filtered[2]

Prefix(s, n) == SubSeq(s, 1, Min(n, Len(s)))
Raised(k) == calls[k].outcome.kind = "raise"
Answered(k) == calls[k].outcome.kind = "return" /\ calls[k].outcome.content # PyNone

\* C6: a call whose summarizer raised has returned, and what it returned is the
\* deterministic block, the 'AI Summary:' header and a text that starts with
\* '[Model call failed]'; the block and the header are those of any call with the
\* same query whose summarizer answered.
C6_FailureContained ==
    \A k \in DOMAIN calls :
        Raised(k) =>
            LET block == calls[k].deterministic_result
                start == block \o <<"\n", "\n", "A", "I", " ", "S", "u", "m", "m", "a", "r", "y", ":", "\n">>
            IN /\ calls[k].result =
                      start \o <<"[", "M", "o", "d", "e", "l", " ", "c", "a", "l", "l", " ", "f", "a", "i", "l", "e", "d", "]", " ">> \o calls[k].outcome.error
               /\ k = Len(calls) => result = calls[k].result
               /\ \A j \in CallsOf(calls[k].query) :
                     Answered(j) =>
                        /\ Prefix(calls[j].result, Len(start)) = start
                        /\ calls[j].result =
                              start \o Strip(calls[j].outcome.content.s)

C6_Witness ==
    \E k \in DOMAIN calls :
        /\ Raised(k)
        /\ \E j \in CallsOf(calls[k].query) : Answered(j)
        /\ calls[k].deterministic_result # NO_MATCH

SEPARATOR_LINE == [op |-> "print", text |-> <<"\n">> \o [i \in 1..60 |-> "="] \o <<"\n">>]
IsInput(i) == events[i].op = "input"
Typed(i) == Strip(events[i].line)
EndsLoop(q) == Lower(q) \in { <<"e", "x", "i", "t">>, <<"q", "u", "i", "t">> }
IsQueryInput(i) == IsInput(i) /\ Typed(i) # <<>> /\ ~EndsLoop(Typed(i))
\* the number of query inputs among the first i events
QueryNumber(i) == Cardinality({j \in 1..i : IsQueryInput(j)})

\* C7: in the loop, an input that is empty once stripped starts no query and is
\* followed by the next prompt; exit or quit in any letter case prints the
\* farewell and ends the loop, and no other input ends it; any other input is
\* handed to shopping_agent_query exactly once, and its result is printed between
\* two lines of 60 '=' before the next input is read.
C7_Loop ==
    LET n == Len(events)
    IN /\ \A i \in DOMAIN events :
             IsInput(i) =>
                CASE Typed(i) = <<>> ->
                        /\ i = n => pc = "input"
                        /\ i < n => IsInput(i + 1)
                  [] Typed(i) # <<>> /\ EndsLoop(Typed(i)) ->
                        /\ n = i + 1
                        /\ events[n] = [op |-> "print", text |-> <<"G", "o", "o", "d", "b", "y", "e", "!">>]
                        /\ pc = "done"
                  [] OTHER ->
                        /\ i = n => pc = "query"
                        /\ i < n => /\ events[i + 1].op = "chat"
                                    /\ Len(calls) >= QueryNumber(i)
                                    /\ calls[QueryNumber(i)].query = Typed(i)
                        /\ i + 1 = n => pc = "print"
                        /\ i + 1 < n =>
                              /\ n >= i + 4
                              /\ events[i + 2] = SEPARATOR_LINE
                              /\ events[i + 3] =
                                    [op |-> "print", text |-> calls[QueryNumber(i)].result]
                              /\ events[i + 4] = SEPARATOR_LINE
                        /\ i + 4 = n => pc = "input"
                        /\ i + 4 < n => IsInput(i + 5)
       /\ pc = "done" => n >= 2 /\ IsInput(n - 1) /\ EndsLoop(Typed(n - 1))
       /\ Len(calls) = Cardinality({i \in DOMAIN events : events[i].op = "chat"})
       /\ Len(calls) = QueryNumber(n) - (IF pc = "query" THEN 1 ELSE 0)

C7_Witness ==
    /\ pc = "done"
    /\ Len(calls) = 1
    /\ \E i \in DOMAIN events : IsInput(i) /\ events[i].line # Lower(Typed(i))

KeyMissing == API_KEY \notin DOMAIN environ \/ environ[API_KEY] = <<>>

\* C8: when the key is absent or empty in the environment the program reads (the
\* one load_dotenv has filled), the process ends at the check with the error
\* message, and no fetch, no input and no summarizer call happens in the run.
C8_NoWorkWithoutKey ==
    (pc # "load_dotenv" /\ KeyMissing) =>
        /\ pc \in {"check_key", "exit"}
        /\ pc = "check_key" => events = <<>>
        /\ pc = "exit" =>
              events = << [op |-> "SystemExit",
                           text |-> <<"E", "R", "R", "O", "R", ":", " ", "O", "P", "E", "N", "A", "I", "_", "A", "P", "I", "_", "K", "E", "Y", " ", "n", "o", "t", " ", "f", "o", "u", "n", "d", ".", " ", "S", "e", "t", " ", "i", "t", " ", "i", "n", " ", "t", "h", "e", " ", "e", "n", "v", "i", "r", "o", "n", "m", "e", "n", "t", " ", "o", "r", " ", ".", "e", "n", "v", " ", "f", "i", "l", "e", ".">>] >>
        /\ products = <<>>
        /\ calls = <<>>

C8_Witness == pc = "exit" /\ API_KEY \in DOMAIN environ /\ events # <<>>

PromptReturned == pc = "build_prompt_for_model_return"

Fetched == IF http.status_code = 200 THEN http.json ELSE <<>>

====
